---- MODULE Spec2Model ----
(***************************************************************************)
(* Model of csdiff's defect correlation (linkify.cc: DefQueue) and of the  *)
(* JSON defect reader (parser-json.cc: JsonParser, GccTreeDecoder,         *)
(* ShellCheckTreeDecoder) driven by AbstractWriter::handleFile.            *)
(***************************************************************************)
EXTENDS Integers, Sequences, FiniteSets, TLC

VARIABLES
    stor,       \* DefQueue::stor_ : defClass -> (filtered path -> list of Defect)
    dst,        \* the caller's destination Defect passed to DefQueue::lookup
    call,       \* the last DefQueue call: operation, arguments, return value
    prev,       \* the DefQueue call before the last one
    insLog,     \* history: the defects passed to hashDefect, in call order
    outLog,     \* history: <<checker, fileName, defect>> of each successful lookup
    nCalls,     \* history: number of DefQueue calls made so far
    input,      \* InStream: the document, silent mode, the error flag, stderr
    priv,       \* JsonParser::Private (d) and the cursor of its decoder
    curDef,     \* the Defect def that handleFile passes to getNext
    pc,         \* position of handleFile / JsonParser::getNext
    handled,    \* history: the defects passed to handleDef, in order
    thrown,     \* history: number of data errors caught by getNext
    callNo,     \* history: number of getNext calls begun
    cin,        \* std::cin: the lines of the query stream, the position, failbit
    qp,         \* DefQueryParser: lineno_, hasError_
    qrow,       \* the QRow that the caller passes to DefQueryParser::getNext
    qerr,       \* the line numbers of the diagnostics of DefQueryParser::parse
    rows,       \* history: the rows for which DefQueryParser::getNext returned true
    qpc,        \* position of the caller of DefQueryParser::getNext
    defParser,  \* main: the Parser of the defect list
    unmatched,  \* main: the queries whose lookup failed, not yet printed
    cout,       \* main: what was written to std::cout
    cerr,       \* main: the warnings and errors of main on std::cerr
    status,     \* main: the value returned, -1 before the return
    resolved,   \* history: each query looked up and what lookup returned
    mpc         \* position in main

qvars == <<stor, dst, call, prev, insLog, outLog, nCalls>>

jvars == <<input, priv, curDef, pc, handled, thrown, callNo>>

pvars == <<cin, qp, qrow, qerr, rows, qpc>>

mvars == <<defParser, unmatched, cout, cerr, status, resolved, mpc>>

vars == <<stor, dst, call, prev, insLog, outLog, nCalls,
          input, priv, curDef, pc, handled, thrown, callNo,
          cin, qp, qrow, qerr, rows, qpc,
          defParser, unmatched, cout, cerr, status, resolved, mpc>>

(***************************************************************************)
(* Bounds                                                                  *)
(***************************************************************************)
MaxOps == 4         \* DefQueue calls in one behaviour
MaxRecs == 3        \* records of one JSON document
MaxLines == 3       \* lines of one query stream
MaxDefs == 2        \* defects of the defect list that main reads
MaxQueries == 2     \* lines of the query stream that main reads

(***************************************************************************)
(* Values                                                                  *)
(***************************************************************************)
DefClasses == {"X", "Y"}
Paths == {"a.c", "/build/a.c", "b.c"}
Lines == {1}

DefMsg == [fileName : Paths, line : Lines]
Defect == [defClass : DefClasses, msgs : {<<m>> : m \in DefMsg}]

\* a default-constructed Defect
NoDefect == [defClass |-> "", msgs |-> <<>>]

\* std::map with no element
EmptyMap == [k \in {} |-> <<>>]

\* std::map::operator[] followed by an assignment of the mapped value
MapPut(m, k, v) == [x \in (DOMAIN m) \cup {k} |-> IF x = k THEN v ELSE m[x]]

\* std::map::erase
MapErase(m, k) == [x \in (DOMAIN m) \ {k} |-> m[x]]

\* MsgFilter::filterPath: strips the build-directory prefix of a path
filterPath(p) == IF p = "/build/a.c" THEN "a.c" ELSE p

(***************************************************************************)
(* DefQueue                                                                *)
(***************************************************************************)
\* the outcome of a lookup that finds nothing
NotFound(s, d) == {[ret |-> FALSE, stor |-> s, dst |-> d]}

\* front() and pop_front() of an empty std::list are undefined: any outcome
Undefined(s, d, checker) ==
    [ret : BOOLEAN, stor : {s, MapErase(s, checker)},
     dst : Defect \cup {NoDefect, d}]

\* variant of hashDefect: files the defect under the unfiltered file name
hashDefect_rawPath(s, def) ==
    LET row  == IF def.defClass \in DOMAIN s THEN s[def.defClass] ELSE EmptyMap
        path == def.msgs[1].fileName
        col  == IF path \in DOMAIN row THEN row[path] ELSE <<>>
    IN  MapPut(s, def.defClass, MapPut(row, path, Append(col, def)))

\* DefQueue::hashDefect: the store after filing def
hashDefect(s, def) ==
    LET row  == IF def.defClass \in DOMAIN s THEN s[def.defClass] ELSE EmptyMap
        path == filterPath(def.msgs[1].fileName)
        col  == IF path \in DOMAIN row THEN row[path] ELSE <<>>
    IN  MapPut(s, def.defClass, MapPut(row, path, Append(col, def)))

\* DefQueue::empty
empty(s) == DOMAIN s = {}

\* variant of lookup: takes the newest defect of the list (back/pop_back)
lookup_lifo(s, d, checker, fileName) ==
    IF checker \notin DOMAIN s THEN NotFound(s, d) ELSE
    LET row  == s[checker]
        path == filterPath(fileName)
    IN
    IF path \notin DOMAIN row THEN NotFound(s, d) ELSE
    LET col  == row[path]
        col2 == SubSeq(col, 1, Len(col) - 1)
        row2 == IF col2 = <<>> THEN MapErase(row, path)
                               ELSE MapPut(row, path, col2)
        s2   == IF DOMAIN row2 = {} THEN MapErase(s, checker)
                                    ELSE MapPut(s, checker, row2)
    IN  IF col = <<>> THEN Undefined(s, d, checker)
        ELSE {[ret |-> TRUE, stor |-> s2, dst |-> col[Len(col)]]}

\* variant of lookup: leaves a list that became empty in its row
lookup_keepEmptyList(s, d, checker, fileName) ==
    IF checker \notin DOMAIN s THEN NotFound(s, d) ELSE
    LET row  == s[checker]
        path == filterPath(fileName)
    IN
    IF path \notin DOMAIN row THEN NotFound(s, d) ELSE
    LET col  == row[path] IN
    IF col = <<>> THEN Undefined(s, d, checker)
    ELSE {[ret |-> TRUE, dst |-> Head(col),
           stor |-> MapPut(s, checker, MapPut(row, path, Tail(col)))]}

\* variant of lookup: removes an emptied list but leaves an emptied row
lookup_keepEmptyRow(s, d, checker, fileName) ==
    IF checker \notin DOMAIN s THEN NotFound(s, d) ELSE
    LET row  == s[checker]
        path == filterPath(fileName)
    IN
    IF path \notin DOMAIN row THEN NotFound(s, d) ELSE
    LET col  == row[path]
        col2 == Tail(col)
        row2 == IF col2 = <<>> THEN MapErase(row, path)
                               ELSE MapPut(row, path, col2)
    IN  IF col = <<>> THEN Undefined(s, d, checker)
        ELSE {[ret |-> TRUE, stor |-> MapPut(s, checker, row2),
               dst |-> Head(col)]}

\* variant of lookup: finds the list with row[path] instead of row.find(path)
lookup_subscript(s, d, checker, fileName) ==
    IF checker \notin DOMAIN s THEN NotFound(s, d) ELSE
    LET row  == s[checker]
        path == filterPath(fileName)
    IN
    IF path \notin DOMAIN row
    THEN NotFound(MapPut(s, checker, MapPut(row, path, <<>>)), d)
    ELSE
    LET col  == row[path]
        col2 == Tail(col)
        row2 == IF col2 = <<>> THEN MapErase(row, path)
                               ELSE MapPut(row, path, col2)
        s2   == IF DOMAIN row2 = {} THEN MapErase(s, checker)
                                    ELSE MapPut(s, checker, row2)
    IN  IF col = <<>> THEN NotFound(s, d)
        ELSE {[ret |-> TRUE, stor |-> s2, dst |-> Head(col)]}

\* variant of lookup: copies the front defect without removing it
lookup_noPop(s, d, checker, fileName) ==
    IF checker \notin DOMAIN s THEN NotFound(s, d) ELSE
    LET row  == s[checker]
        path == filterPath(fileName)
    IN
    IF path \notin DOMAIN row THEN NotFound(s, d) ELSE
    LET col  == row[path] IN
    IF col = <<>> THEN Undefined(s, d, checker)
    ELSE {[ret |-> TRUE, stor |-> s, dst |-> Head(col)]}

\* DefQueue::lookup: the set of possible outcomes [ret, stor, dst]; a
\* singleton unless the code reads the front of an empty list
lookup(s, d, checker, fileName) ==
    \* look for the given defect class
    IF checker \notin DOMAIN s THEN NotFound(s, d) ELSE
    LET row == s[checker] IN
    IF DOMAIN row = {} THEN NotFound(s, d) ELSE
    \* look for the given file name
    LET path == filterPath(fileName) IN
    IF path \notin DOMAIN row THEN NotFound(s, d) ELSE
    LET col == row[path] IN
    \* the second emptiness test in the code is again of the row
    IF DOMAIN row = {} THEN NotFound(s, d) ELSE
    IF col = <<>> THEN Undefined(s, d, checker) ELSE
    \* remove the first defect in the list, then the list, then the row
    LET col2 == Tail(col)
        row2 == IF col2 = <<>> THEN MapErase(row, path)
                               ELSE MapPut(row, path, col2)
        s2   == IF col2 = <<>> /\ DOMAIN row2 = {}
                THEN MapErase(s, checker)
                ELSE MapPut(s, checker, row2)
    IN  {[ret |-> TRUE, stor |-> s2, dst |-> Head(col)]}

NoCall == [op |-> "none", def |-> NoDefect, checker |-> "", fileName |-> "",
           ret |-> FALSE]

(***************************************************************************)
(* JSON documents (boost::property_tree): an object node is a function of  *)
(* its keys, an array node is a sequence                                   *)
(***************************************************************************)
Markers == {"defects", "issues", "runs", "comments"}

RecGcc ==
    [kind |-> "warning",
     locations |-> <<[caret |-> ("byte-column" :> 2)
                                @@ [file |-> "a.c", line |-> 5]]>>,
     message |-> "m",
     option |-> "-Wanalyzer-null-argument",
     children |-> <<[kind |-> "", message |-> "x"],
                    [kind |-> "note", message |-> "n"]>>,
     metadata |-> [cwe |-> 476]]
RecGccMin == [kind |-> "error"]
RecEmptyKind == [kind |-> "", level |-> "", message |-> "e"]
RecSc ==
    ("byte-column" :> 7)
    @@ [level |-> "warning", file |-> "s.sh", line |-> 3, message |-> "q",
        code |-> "2086"]
RecNative == [checker |-> "X", key_event |-> "error"]
RecBad == [note |-> "no mandatory field"]

Records == {RecGcc, RecGccMin, RecEmptyKind, RecSc, RecNative, RecBad}

RECURSIVE SeqsUpTo(_, _)
SeqsUpTo(S, n) ==
    IF n = 0 THEN {<<>>}
    ELSE LET shorter == SeqsUpTo(S, n - 1)
         IN  shorter \cup {Append(q, x) : q \in shorter, x \in S}

\* a document: whether read_json accepts it, the marker children of its
\* root, the first child of the root and the records of the collection that
\* the decoder iterates; with no marker the root is the collection itself
\* and its first child is the first record
Documents ==
    {[syntaxOK |-> TRUE, markers |-> {}, items |-> it,
      first |-> IF it = <<>> THEN RecBad ELSE it[1]]
        : it \in SeqsUpTo(Records, MaxRecs)}
    \cup [syntaxOK : {TRUE}, markers : (SUBSET Markers) \ {{}},
          first : {RecGccMin, RecBad}, items : SeqsUpTo(Records, MaxRecs)]
    \cup {[syntaxOK |-> FALSE, markers |-> {}, first |-> RecBad,
           items |-> <<>>]}

\* valueOf<T>(node, key, defVal)
valueOf(node, key, defVal) == IF key \in DOMAIN node THEN node[key] ELSE defVal

\* findChildOf(&dst, node, key)
findChildOf(node, key) == key \in DOMAIN node

\* DefEvent()
DefEvent0 == [event |-> "", fileName |-> "", line |-> 0, column |-> 0,
              msg |-> ""]

\* Defect(defClass)
DefectOf(defClass) == [defClass |-> defClass, events |-> <<>>, cwe |-> 0]

(***************************************************************************)
(* Tree decoders                                                           *)
(***************************************************************************)
\* AbstractTreeDecoder::nextNode: the current node and the moved cursor, or
\* null after a failed initialization or at the end of the list
nextNode(dd) ==
    IF ~dd.hasList \/ dd.defIter > Len(dd.defList)
    THEN [null |-> TRUE, defIter |-> dd.defIter]
    ELSE [null |-> FALSE, node |-> dd.defList[dd.defIter],
          defIter |-> dd.defIter + 1]

\* GccPostProcessor::apply: re-classifies the findings of the GCC analyzer
apply(df) ==
    IF df.events[1].msg = "m [-Wanalyzer-null-argument]"
    THEN [df EXCEPT !.defClass = "GCC_ANALYZER_WARNING"]
    ELSE df

\* variant of gccReadEvent: accepts an event whose kind is empty
gccReadEvent_anyKind(pEvt, evtNode) ==
    LET e1 == [pEvt EXCEPT !.event = valueOf(evtNode, "kind", ""),
                           !.fileName = "<unknown>"]
        e2 == [e1 EXCEPT !.msg = valueOf(evtNode, "message", "<unknown>")]
    IN  [ok |-> TRUE, evt |-> e2]

\* gccReadEvent: the value returned and the event written through pEvt
gccReadEvent(pEvt, evtNode) ==
    \* read kind (error, warning, note)
    LET e1 == [pEvt EXCEPT !.event = valueOf(evtNode, "kind", "")] IN
    IF e1.event = "" THEN [ok |-> FALSE, evt |-> e1] ELSE
    \* read location
    LET e2 == [e1 EXCEPT !.fileName = "<unknown>"]
        hasCaret ==
            /\ findChildOf(evtNode, "locations")
            /\ evtNode.locations # <<>>
            /\ findChildOf(evtNode.locations[1], "caret")
        caret == evtNode.locations[1].caret
        e3 == IF hasCaret
              THEN [e2 EXCEPT !.fileName = valueOf(caret, "file", "<unknown>"),
                              !.line = valueOf(caret, "line", 0),
                              !.column = valueOf(caret, "byte-column", 0)]
              ELSE e2
        \* read message
        e4 == [e3 EXCEPT !.msg = valueOf(evtNode, "message", "<unknown>")]
        \* read -W... if available
        option == valueOf(evtNode, "option", "")
        e5 == IF option # ""
              THEN [e4 EXCEPT !.msg = @ \o " [" \o option \o "]"]
              ELSE e4
    IN  [ok |-> TRUE, evt |-> e5]

\* the events that the loop over "children" appends
RECURSIVE gccReadChildren(_)
gccReadChildren(children) ==
    IF children = <<>> THEN <<>>
    ELSE LET r == gccReadEvent(DefEvent0, Head(children))
         IN  (IF r.ok THEN <<r.evt>> ELSE <<>>)
             \o gccReadChildren(Tail(children))

\* GccTreeDecoder::readNode: the value returned ("true"/"false"), the Defect
\* written through def and the moved cursor
GccTreeDecoder_readNode(dd, df) ==
    LET n == nextNode(dd) IN
    IF n.null THEN [res |-> "false", def |-> df, defIter |-> n.defIter] ELSE
    LET defNode == n.node
        \* read key event
        key == gccReadEvent(DefEvent0, defNode)
        d1  == [DefectOf("COMPILER_WARNING") EXCEPT !.events = <<key.evt>>]
    IN
    IF ~key.ok THEN [res |-> "false", def |-> d1, defIter |-> n.defIter] ELSE
    \* read other events if available
    LET d2 == IF findChildOf(defNode, "children")
              THEN [d1 EXCEPT !.events = @ \o gccReadChildren(defNode.children)]
              ELSE d1
        \* read CWE ID if available
        d3 == IF findChildOf(defNode, "metadata")
              THEN [d2 EXCEPT !.cwe = valueOf(defNode.metadata, "cwe", 0)]
              ELSE d2
    IN  [res |-> "true", def |-> apply(d3), defIter |-> n.defIter]

\* scReadEvent: the value returned and the event written through pEvt
scReadEvent(pEvt, evtNode) ==
    \* read level (error, warning, note)
    LET e1 == [pEvt EXCEPT !.event = valueOf(evtNode, "level", "")] IN
    IF e1.event = "" THEN [ok |-> FALSE, evt |-> e1] ELSE
    \* read location and message
    LET e2 == [e1 EXCEPT !.fileName = valueOf(evtNode, "file", "<unknown>"),
                         !.line = valueOf(evtNode, "line", 0),
                         !.column = valueOf(evtNode, "byte-column", 0),
                         !.msg = valueOf(evtNode, "message", "<unknown>")]
        \* append [SC...] if available
        code == valueOf(evtNode, "code", "")
        e3 == IF code # ""
              THEN [e2 EXCEPT !.msg = @ \o " [SC" \o code \o "]"]
              ELSE e2
    IN  [ok |-> TRUE, evt |-> e3]

\* ShellCheckTreeDecoder::readNode
ShellCheckTreeDecoder_readNode(dd, df) ==
    LET n == nextNode(dd) IN
    IF n.null THEN [res |-> "false", def |-> df, defIter |-> n.defIter] ELSE
    LET key == scReadEvent(DefEvent0, n.node)
        d1  == [DefectOf("SHELLCHECK_WARNING") EXCEPT !.events = <<key.evt>>]
    IN
    IF ~key.ok THEN [res |-> "false", def |-> d1, defIter |-> n.defIter]
    ELSE [res |-> "true", def |-> apply(d1), defIter |-> n.defIter]

\* readNode of SimpleTreeDecoder, CovTreeDecoder and SarifTreeDecoder: a
\* record without its mandatory fields raises a property-tree error
OtherTreeDecoder_readNode(dd, df) ==
    LET n == nextNode(dd) IN
    IF n.null THEN [res |-> "false", def |-> df, defIter |-> n.defIter] ELSE
    IF ~findChildOf(n.node, "checker") \/ ~findChildOf(n.node, "key_event")
    THEN [res |-> "throw", def |-> df, defIter |-> n.defIter]
    ELSE [res |-> "true", defIter |-> n.defIter,
          def |-> [DefectOf(n.node.checker) EXCEPT !.events =
                    <<[DefEvent0 EXCEPT !.event = n.node.key_event,
                                        !.fileName = "<unknown>"]>>]]

\* d->decoder->readNode(def): virtual dispatch
readNode(dd, df) ==
    CASE dd.decoder = "GccTreeDecoder" -> GccTreeDecoder_readNode(dd, df)
      [] dd.decoder = "ShellCheckTreeDecoder" ->
            ShellCheckTreeDecoder_readNode(dd, df)
      [] OTHER -> OtherTreeDecoder_readNode(dd, df)

(***************************************************************************)
(* JsonParser                                                              *)
(***************************************************************************)
\* InStream::handleError: marks the error flag of the input
handleError(inp) == [inp EXCEPT !.anyError = TRUE]

\* variant of dataError: returns in silent mode before marking the error
dataError_silentFirst(inp, dd) ==
    IF inp.silent THEN inp
    ELSE [handleError(inp) EXCEPT !.stderr = Append(@, dd.defNumber)]

\* JsonParser::Private::dataError: the input after the report; stderr keeps
\* the number printed after "failed to read defect #"
dataError(inp, dd) ==
    LET i1 == handleError(inp) IN
    IF i1.silent THEN i1
    ELSE [i1 EXCEPT !.stderr = Append(@, dd.defNumber)]

\* variant of sniff: looks for "runs" before "issues"
sniff_runsFirst(root) ==
    IF "defects" \in root.markers THEN "SimpleTreeDecoder"
    ELSE IF "runs" \in root.markers THEN "SarifTreeDecoder"
    ELSE IF "issues" \in root.markers THEN "CovTreeDecoder"
    ELSE IF "comments" \in root.markers THEN "ShellCheckTreeDecoder"
    ELSE IF findChildOf(root.first, "kind") THEN "GccTreeDecoder"
    ELSE "unknown"

\* the decoder that the constructor selects, "unknown" when it throws
sniff(root) ==
    IF "defects" \in root.markers THEN "SimpleTreeDecoder"
    ELSE IF "issues" \in root.markers THEN "CovTreeDecoder"
    ELSE IF "runs" \in root.markers THEN "SarifTreeDecoder"
    ELSE IF "comments" \in root.markers THEN "ShellCheckTreeDecoder"
    ELSE IF findChildOf(root.first, "kind") THEN "GccTreeDecoder"
    ELSE "unknown"

\* Private(input)
Private0 == [decoder |-> "null", defNumber |-> 0, hasList |-> FALSE,
             defList |-> <<>>, defIter |-> 1]

\* JsonParser::JsonParser: the parser and the input after construction
JsonParser(inp) ==
    LET root == inp.doc IN
    IF ~root.syntaxOK
    THEN \* read_json throws file_parser_error
         [d |-> Private0, input |-> handleError(inp)]
    ELSE IF root.markers = {} /\ root.items = <<>>
    THEN \* empty JSON, such as []
         [d |-> Private0, input |-> inp]
    ELSE IF sniff(root) = "unknown"
    THEN \* ptree_error("unknown JSON format")
         [d |-> Private0, input |-> handleError(inp)]
    ELSE \* readScanProps, then readRoot sets the list and the cursor
         [d |-> [Private0 EXCEPT !.decoder = sniff(root), !.hasList = TRUE,
                                 !.defList = root.items, !.defIter = 1],
          input |-> inp]

\* JsonParser::hasError
hasError(inp) == inp.anyError

\* what a call through the null decoder pointer may do: abort the process,
\* or return either value without reading a record (the returns of true
\* are followed up to MaxRecs times)
NullDecoder(dd, inp, df) ==
    {[ret |-> "crash", d |-> dd, input |-> inp, def |-> df],
     [ret |-> "false", d |-> dd, input |-> inp, def |-> df]}
    \cup (IF dd.defNumber < MaxRecs
          THEN {[ret |-> "true", d |-> [dd EXCEPT !.defNumber = @ + 1],
                 input |-> inp, def |-> df]}
          ELSE {})

\* variant of getNext: counts the record before it is read
getNext_countFirst(dd, inp, df0) ==
    IF dd.decoder = "null" THEN NullDecoder(dd, inp, DefectOf("")) ELSE
    LET df == DefectOf("")
        r  == readNode(dd, df)
        d1 == [dd EXCEPT !.defIter = r.defIter, !.defNumber = @ + 1]
    IN  IF r.res = "throw"
        THEN {[ret |-> "retry", d |-> d1, input |-> dataError(inp, d1),
               def |-> r.def]}
        ELSE {[ret |-> r.res, d |-> d1, input |-> inp, def |-> r.def]}

\* JsonParser::getNext, one pass of its error recovery loop: the possible
\* outcomes; ret is "true", "false", "retry" (the error was caught and the
\* loop goes on) or "crash"
getNext(dd, inp, df0) ==
    IF dd.decoder = "null" THEN NullDecoder(dd, inp, DefectOf("")) ELSE
    \* make sure the Defect structure is properly initialized
    LET df == DefectOf("")
        \* read the current node and move to the next one
        r  == readNode(dd, df)
        d1 == [dd EXCEPT !.defIter = r.defIter]
    IN  IF r.res = "throw"
        THEN {[ret |-> "retry", d |-> d1, input |-> dataError(inp, d1),
               def |-> r.def]}
        ELSE IF r.res = "true"
        THEN {[ret |-> "true", d |-> [d1 EXCEPT !.defNumber = @ + 1],
               input |-> inp, def |-> r.def]}
        ELSE {[ret |-> "false", d |-> d1, input |-> inp, def |-> r.def]}

(***************************************************************************)
(* DefQueryParser                                                          *)
(***************************************************************************)
\* the lines of a query stream; a line is the sequence of its commas and of
\* the texts between them
LineOk1 == <<"7", ",", "X", ",", "a.c">>
LineOk2 == <<"8", ",", "Y", ",", "/build/a.c", ",", "extra">>
LineEmptyFields == <<"9", ",", ",">>
LineTwoFields == <<"7", ",", "X">>
LineNotInt == <<"not-an-int", ",", "X", ",", "a.c">>
LineEmpty == <<>>

QueryLines == {LineOk1, LineOk2, LineEmptyFields, LineTwoFields, LineNotInt,
               LineEmpty}

\* boost::split(tokens, line, is_any_of(",")): one token more than commas
RECURSIVE split(_)
split(line) ==
    IF line = <<>> THEN <<"">>
    ELSE LET n     == Len(line)
             front == split(SubSeq(line, 1, n - 1))
             m     == Len(front)
         IN  IF line[n] = ","
             THEN Append(front, "")
             ELSE [front EXCEPT ![m] = @ \o line[n]]

\* boost::lexical_cast<int>: the texts that are integers and their values
Numerals == [n \in {"7", "8", "9"} |->
                CASE n = "7" -> 7 [] n = "8" -> 8 [] n = "9" -> 9]

\* DefQueryParser::QRow before the first assignment
QRow0 == [cid |-> 0, defClass |-> "", fileName |-> ""]

\* DefQueryParser::DefQueryParser
DefQueryParser0 == [lineno_ |-> 0, hasError_ |-> FALSE]

\* std::getline(std::cin, line): the line read and the stream afterwards
getline(c) ==
    IF c.fail \/ c.next > Len(c.lines)
    THEN [ok |-> FALSE, line |-> <<>>, cin |-> [c EXCEPT !.fail = TRUE]]
    ELSE [ok |-> TRUE, line |-> c.lines[c.next],
          cin |-> [c EXCEPT !.next = @ + 1]]

\* DefQueryParser::parse: the value returned, the stream, the parser, the
\* row written through dst and the diagnostics afterwards
parse(c, q, dst0, err) ==
    \* read one line from stdin
    LET g == getline(c) IN
    IF ~g.ok
    THEN [ret |-> FALSE, cin |-> g.cin, qp |-> q, row |-> dst0, qerr |-> err]
    ELSE
    \* increment the line counter, tokenize the line
    LET q1     == [q EXCEPT !.lineno_ = @ + 1]
        tokens == split(g.line)
    IN
    IF Len(tokens) < 3
    THEN [ret |-> FALSE, cin |-> g.cin, qp |-> q1, row |-> dst0,
          qerr |-> Append(err, q1.lineno_)]
    ELSE
    \* parse cid
    IF tokens[1] \notin DOMAIN Numerals
    THEN [ret |-> FALSE, cin |-> g.cin, qp |-> q1, row |-> dst0,
          qerr |-> Append(err, q1.lineno_)]
    ELSE [ret |-> TRUE, cin |-> g.cin, qp |-> q1, qerr |-> err,
          row |-> [cid |-> Numerals[tokens[1]], defClass |-> tokens[2],
                   fileName |-> tokens[3]]]

\* variant of DefQueryParser::getNext: a line that fails to parse ends the
\* stream
DefQueryParser_getNext_noRecovery(c, q, dst0, err) ==
    IF c.fail
    THEN [ret |-> "false", cin |-> c, qp |-> q, row |-> dst0, qerr |-> err]
    ELSE LET r == parse(c, q, dst0, err) IN
         IF r.ret
         THEN [ret |-> "true", cin |-> r.cin, qp |-> r.qp, row |-> r.row,
               qerr |-> r.qerr]
         ELSE [ret |-> "false", cin |-> r.cin, row |-> r.row,
               qerr |-> r.qerr, qp |-> [r.qp EXCEPT !.hasError_ = TRUE]]

\* DefQueryParser::getNext, one test of while (std::cin) and one pass of the
\* loop: ret is "true", "false" (EOF) or "retry" (the loop goes on)
DefQueryParser_getNext(c, q, dst0, err) ==
    IF c.fail
    THEN [ret |-> "false", cin |-> c, qp |-> q, row |-> dst0, qerr |-> err]
    ELSE LET r == parse(c, q, dst0, err) IN
         IF r.ret
         THEN [ret |-> "true", cin |-> r.cin, qp |-> r.qp, row |-> r.row,
               qerr |-> r.qerr]
         ELSE [ret |-> "retry", cin |-> r.cin, row |-> r.row,
               qerr |-> r.qerr, qp |-> [r.qp EXCEPT !.hasError_ = TRUE]]

\* DefQueryParser::hasError
DefQueryParser_hasError(q) == q.hasError_

\* the query parser is not part of this specification
QueryIdle ==
    /\ cin = [lines |-> <<>>, next |-> 1, fail |-> FALSE]
    /\ qp = DefQueryParser0
    /\ qrow = QRow0
    /\ qerr = <<>>
    /\ rows = <<>>
    /\ qpc = "idle"

(***************************************************************************)
(* main of linkify                                                         *)
(***************************************************************************)
\* the defect lists that main reads: one that fails as a whole, or a
\* sequence of defects, some record of which may have been skipped
DefLists ==
    [fatal : {FALSE}, skipped : BOOLEAN, defects : SeqsUpTo(Defect, MaxDefs)]
    \cup {[fatal |-> TRUE, skipped |-> FALSE, defects |-> <<>>]}

\* Parser defParser(defListStream, defListFile)
Parser(doc) == [doc |-> doc, next |-> 1, hasError |-> doc.fatal]

\* Parser::getNext: whether a defect was read, the defect, the parser
Parser_getNext(p, df) ==
    IF p.doc.fatal \/ p.next > Len(p.doc.defects)
    THEN [ret |-> FALSE, def |-> df,
          parser |-> [p EXCEPT !.hasError = @ \/ p.doc.skipped]]
    ELSE [ret |-> TRUE, def |-> p.doc.defects[p.next],
          parser |-> [p EXCEPT !.next = @ + 1]]

\* Parser::hasError
Parser_hasError(p) == p.hasError

\* the lines of the query stream that main reads
MainLines == {LineOk1, LineOk2, LineEmptyFields, LineNotInt}

\* what main writes to std::cout and std::cerr
Linkified(df, cid) == [kind |-> "linkify", cid |-> cid, def |-> df]
Section == [kind |-> "initSection", cid |-> 0, def |-> NoDefect]
BareCid(r) == [kind |-> "linkBareCid", cid |-> r.cid, def |-> NoDefect]
LookupFailed(cid) == [msg |-> "defect lookup failed", cid |-> cid]
OffsetDetected == [msg |-> "offset detected", cid |-> 0]

\* variant of the value that main returns: the query parser is not asked
mainStatus_noQueryParser(lookupError, q, p) ==
    IF lookupError \/ Parser_hasError(p) THEN 1 ELSE 0

\* the value that main returns
mainStatus(lookupError, q, p) ==
    IF lookupError \/ DefQueryParser_hasError(q) \/ Parser_hasError(p)
    THEN 1 ELSE 0

\* main is not part of this specification
MainIdle ==
    /\ defParser = Parser([fatal |-> FALSE, skipped |-> FALSE,
                           defects |-> <<>>])
    /\ unmatched = <<>>
    /\ cout = <<>>
    /\ cerr = <<>>
    /\ status = -1
    /\ resolved = <<>>
    /\ mpc = "idle"

(***************************************************************************)
(* DefQueue driven by arbitrary calls                                      *)
(***************************************************************************)
NoInput == [doc |-> [syntaxOK |-> FALSE, markers |-> {}, first |-> RecBad,
                    items |-> <<>>],
            silent |-> FALSE, anyError |-> FALSE, stderr |-> <<>>]

\* the JSON reader is not part of this specification
JsonIdle ==
    /\ input = NoInput
    /\ priv = Private0
    /\ curDef = DefectOf("")
    /\ pc = "idle"
    /\ handled = <<>>
    /\ thrown = 0
    /\ callNo = 0

\* the queue is not part of this specification
QueueIdle ==
    /\ stor = EmptyMap
    /\ dst = NoDefect
    /\ call = NoCall
    /\ prev = NoCall
    /\ insLog = <<>>
    /\ outLog = <<>>
    /\ nCalls = 0

InitQueue == QueueIdle /\ JsonIdle /\ QueryIdle /\ MainIdle

HashDefectCall ==
    /\ nCalls < MaxOps
    /\ nCalls' = nCalls + 1
    /\ prev' = call
    /\ \E df \in Defect :
        /\ stor' = hashDefect(stor, df)
        /\ insLog' = Append(insLog, df)
        /\ call' = [NoCall EXCEPT !.op = "hashDefect", !.def = df]
    /\ UNCHANGED <<dst, outLog>>
    /\ UNCHANGED <<jvars, pvars, mvars>>

LookupCall ==
    /\ nCalls < MaxOps
    /\ nCalls' = nCalls + 1
    /\ prev' = call
    /\ \E checker \in DefClasses, fileName \in Paths :
       \E r \in lookup(stor, dst, checker, fileName) :
        /\ stor' = r.stor
        /\ dst' = r.dst
        /\ call' = [NoCall EXCEPT !.op = "lookup", !.checker = checker,
                                  !.fileName = fileName, !.ret = r.ret]
        /\ outLog' = IF r.ret THEN Append(outLog, <<checker, fileName, r.dst>>)
                              ELSE outLog
    /\ UNCHANGED insLog
    /\ UNCHANGED <<jvars, pvars, mvars>>

NextQueue == HashDefectCall \/ LookupCall

SpecQueue == InitQueue /\ [][NextQueue]_vars

(***************************************************************************)
(* AbstractWriter::handleFile reading one JSON document                    *)
(***************************************************************************)
\* the input stream is open and the parser is about to be constructed
InitJson ==
    /\ QueueIdle
    /\ QueryIdle
    /\ MainIdle
    /\ \E doc \in Documents, silent \in BOOLEAN :
        input = [doc |-> doc, silent |-> silent, anyError |-> FALSE,
                 stderr |-> <<>>]
    /\ priv = Private0
    /\ curDef = DefectOf("")
    /\ pc = "ctor"
    /\ handled = <<>>
    /\ thrown = 0
    /\ callNo = 0

\* Parser parser(str.str(), fileName, silent)
Construct ==
    /\ pc = "ctor"
    /\ LET r == JsonParser(input) IN priv' = r.d /\ input' = r.input
    /\ pc' = "while"
    /\ UNCHANGED <<curDef, handled, thrown, callNo>>
    /\ UNCHANGED <<qvars, pvars, mvars>>

\* while (parser.getNext(&def)): a new call of getNext begins
CallGetNext ==
    /\ pc = "while"
    /\ pc' = "getNext"
    /\ callNo' = callNo + 1
    /\ UNCHANGED <<input, priv, curDef, handled, thrown>>
    /\ UNCHANGED <<qvars, pvars, mvars>>

\* one pass of the loop of getNext whose outcome is ret
GetNextPass(ret) ==
    \E r \in getNext(priv, input, curDef) :
        /\ r.ret = ret
        /\ priv' = r.d
        /\ input' = r.input
        /\ curDef' = r.def

\* getNext returns true: a defect is yielded
GetNextTrue ==
    /\ pc = "getNext"
    /\ GetNextPass("true")
    /\ pc' = "handleDef"
    /\ UNCHANGED <<handled, thrown, callNo>>
    /\ UNCHANGED <<qvars, pvars, mvars>>

\* getNext returns false: the caller's loop ends
GetNextFalse ==
    /\ pc = "getNext"
    /\ GetNextPass("false")
    /\ pc' = "return"
    /\ UNCHANGED <<handled, thrown, callNo>>
    /\ UNCHANGED <<qvars, pvars, mvars>>

\* getNext catches a property-tree error and goes on with the next record
GetNextCatch ==
    /\ pc = "getNext"
    /\ GetNextPass("retry")
    /\ thrown' = thrown + 1
    /\ pc' = "getNext"
    /\ UNCHANGED <<handled, callNo>>
    /\ UNCHANGED <<qvars, pvars, mvars>>

\* the call through a null decoder aborts the process
GetNextCrash ==
    /\ pc = "getNext"
    /\ GetNextPass("crash")
    /\ pc' = "crashed"
    /\ UNCHANGED <<handled, thrown, callNo>>
    /\ UNCHANGED <<qvars, pvars, mvars>>

\* this->handleDef(def)
HandleDef ==
    /\ pc = "handleDef"
    /\ handled' = Append(handled, curDef)
    /\ pc' = "while"
    /\ UNCHANGED <<input, priv, curDef, thrown, callNo>>
    /\ UNCHANGED <<qvars, pvars, mvars>>

\* return !parser.hasError()
Return ==
    /\ pc = "return"
    /\ pc' = IF hasError(input) THEN "done_false" ELSE "done_true"
    /\ UNCHANGED <<input, priv, curDef, handled, thrown, callNo>>
    /\ UNCHANGED <<qvars, pvars, mvars>>

NextJson ==
    \/ Construct
    \/ CallGetNext
    \/ GetNextTrue
    \/ GetNextFalse
    \/ GetNextCatch
    \/ GetNextCrash
    \/ HandleDef
    \/ Return

SpecJson == InitJson /\ [][NextJson]_vars

(***************************************************************************)
(* DefQueryParser driven by while (qParser.getNext(row))                   *)
(***************************************************************************)
InitQuery ==
    /\ QueueIdle
    /\ JsonIdle
    /\ MainIdle
    /\ \E lines \in SeqsUpTo(QueryLines, MaxLines) :
        cin = [lines |-> lines, next |-> 1, fail |-> FALSE]
    /\ qp = DefQueryParser0
    /\ qrow = QRow0
    /\ qerr = <<>>
    /\ rows = <<>>
    /\ qpc = "getNext"

\* one pass of the loop of DefQueryParser::getNext whose outcome is ret
QueryPass(ret) ==
    LET r == DefQueryParser_getNext(cin, qp, qrow, qerr) IN
        /\ r.ret = ret
        /\ cin' = r.cin
        /\ qp' = r.qp
        /\ qrow' = r.row
        /\ qerr' = r.qerr

\* getNext returns true: a query is yielded
QueryTrue ==
    /\ qpc = "getNext"
    /\ QueryPass("true")
    /\ rows' = Append(rows, qrow')
    /\ qpc' = "body"
    /\ UNCHANGED <<qvars, jvars, mvars>>

\* parse failed: the error is marked and the loop goes on
QueryRetry ==
    /\ qpc = "getNext"
    /\ QueryPass("retry")
    /\ qpc' = "getNext"
    /\ UNCHANGED rows
    /\ UNCHANGED <<qvars, jvars, mvars>>

\* std::cin has failed: getNext returns false
QueryFalse ==
    /\ qpc = "getNext"
    /\ QueryPass("false")
    /\ qpc' = "eof"
    /\ UNCHANGED rows
    /\ UNCHANGED <<qvars, jvars, mvars>>

\* the caller is done with the row and calls getNext again
QueryAgain ==
    /\ qpc = "body"
    /\ qpc' = "getNext"
    /\ UNCHANGED <<cin, qp, qrow, qerr, rows>>
    /\ UNCHANGED <<qvars, jvars, mvars>>

NextQuery == QueryTrue \/ QueryRetry \/ QueryFalse \/ QueryAgain

SpecQuery == InitQuery /\ [][NextQuery]_vars

(***************************************************************************)
(* main: the defect list is hashed, then the queries are looked up         *)
(***************************************************************************)
InitMain ==
    /\ QueueIdle
    /\ JsonIdle
    /\ \E lines \in SeqsUpTo(MainLines, MaxQueries) :
        cin = [lines |-> lines, next |-> 1, fail |-> FALSE]
    /\ qp = DefQueryParser0
    /\ qrow = QRow0
    /\ qerr = <<>>
    /\ rows = <<>>
    /\ qpc = "idle"
    /\ \E doc \in DefLists : defParser = Parser(doc)
    /\ unmatched = <<>>
    /\ cout = <<>>
    /\ cerr = <<>>
    /\ status = -1
    /\ resolved = <<>>
    /\ mpc = "readDefs"

\* while (defParser.getNext(&def)) stor.hashDefect(def)
MainHashDefect ==
    /\ mpc = "readDefs"
    /\ LET r == Parser_getNext(defParser, dst) IN
        /\ r.ret
        /\ defParser' = r.parser
        /\ dst' = r.def
        /\ stor' = hashDefect(stor, r.def)
        /\ insLog' = Append(insLog, r.def)
        /\ call' = [NoCall EXCEPT !.op = "hashDefect", !.def = r.def]
    /\ prev' = call
    /\ nCalls' = nCalls + 1
    /\ UNCHANGED <<outLog, unmatched, cout, cerr, status, resolved, mpc>>
    /\ UNCHANGED <<jvars, pvars>>

\* defParser.getNext returned false: the stream is closed, the queries begin
MainDefsDone ==
    /\ mpc = "readDefs"
    /\ LET r == Parser_getNext(defParser, dst) IN
        /\ ~r.ret
        /\ defParser' = r.parser
        /\ dst' = r.def
    /\ mpc' = "queries"
    /\ qpc' = "getNext"
    /\ UNCHANGED <<stor, call, prev, insLog, outLog, nCalls>>
    /\ UNCHANGED <<cin, qp, qrow, qerr, rows>>
    /\ UNCHANGED <<unmatched, cout, cerr, status, resolved>>
    /\ UNCHANGED jvars

\* the call of stor.lookup(def, row.defClass, row.fileName) that returns ret
MainLookup(ret) ==
    /\ mpc = "queries"
    /\ qpc = "body"
    /\ \E r \in lookup(stor, dst, qrow.defClass, qrow.fileName) :
        /\ r.ret = ret
        /\ stor' = r.stor
        /\ dst' = r.dst
        /\ call' = [NoCall EXCEPT !.op = "lookup", !.checker = qrow.defClass,
                                  !.fileName = qrow.fileName, !.ret = r.ret]
        /\ outLog' = IF r.ret
                     THEN Append(outLog, <<qrow.defClass, qrow.fileName, r.dst>>)
                     ELSE outLog
    /\ prev' = call
    /\ nCalls' = nCalls + 1
    /\ resolved' = Append(resolved, [row |-> qrow, ret |-> ret])
    /\ qpc' = "getNext"
    /\ UNCHANGED <<cin, qp, qrow, qerr, rows>>
    /\ UNCHANGED <<defParser, status, mpc>>
    /\ UNCHANGED jvars

\* the lookup succeeded: linkify(def, cid, defBase, chkBase)
MainLookupFound ==
    /\ MainLookup(TRUE)
    /\ cout' = Append(cout, Linkified(dst', qrow.cid))
    /\ UNCHANGED <<insLog, unmatched, cerr>>

\* variant of the failed lookup: the defect that lookup left in def is hashed
\* again
MainLookupFailed_rehash ==
    /\ mpc = "queries"
    /\ qpc = "body"
    /\ dst # NoDefect
    /\ \E r \in lookup(stor, dst, qrow.defClass, qrow.fileName) :
        /\ ~r.ret
        /\ stor' = hashDefect(r.stor, r.dst)
        /\ insLog' = Append(insLog, r.dst)
        /\ dst' = r.dst
        /\ call' = [NoCall EXCEPT !.op = "lookup", !.checker = qrow.defClass,
                                  !.fileName = qrow.fileName, !.ret = r.ret]
    /\ prev' = call
    /\ nCalls' = nCalls + 1
    /\ resolved' = Append(resolved, [row |-> qrow, ret |-> FALSE])
    /\ qpc' = "getNext"
    /\ cerr' = Append(cerr, LookupFailed(qrow.cid))
    /\ unmatched' = Append(unmatched, qrow)
    /\ UNCHANGED <<cin, qp, qrow, qerr, rows, outLog, cout>>
    /\ UNCHANGED <<defParser, status, mpc>>
    /\ UNCHANGED jvars

\* the lookup failed: the warning is printed, the query is kept for the
\* section of unmatched queries
MainLookupFailed ==
    /\ MainLookup(FALSE)
    /\ cerr' = Append(cerr, LookupFailed(qrow.cid))
    /\ unmatched' = Append(unmatched, qrow)
    /\ UNCHANGED <<insLog, cout>>

\* variant of the section of unmatched queries: the newest query is printed
\* first
MainLinkBareCid_back ==
    /\ mpc = "queries"
    /\ qpc = "eof"
    /\ unmatched # <<>>
    /\ cout' = (IF \E i \in 1..Len(cout) : cout[i] = Section
                THEN cout ELSE Append(cout, Section))
               \o <<BareCid(unmatched[Len(unmatched)])>>
    /\ unmatched' = SubSeq(unmatched, 1, Len(unmatched) - 1)
    /\ UNCHANGED <<defParser, cerr, status, resolved, mpc>>
    /\ UNCHANGED <<qvars, jvars, pvars>>

\* the query stream has ended: linkBareCid(unmatched.front()), pop_front(),
\* after initSection before the first one
MainLinkBareCid ==
    /\ mpc = "queries"
    /\ qpc = "eof"
    /\ unmatched # <<>>
    /\ cout' = (IF \E i \in 1..Len(cout) : cout[i] = Section
                THEN cout ELSE Append(cout, Section))
               \o <<BareCid(Head(unmatched))>>
    /\ unmatched' = Tail(unmatched)
    /\ UNCHANGED <<defParser, cerr, status, resolved, mpc>>
    /\ UNCHANGED <<qvars, jvars, pvars>>

\* variant of the return of main: the queue is not tested when a lookup has
\* failed
MainReturn_suppressed ==
    /\ mpc = "queries"
    /\ qpc = "eof"
    /\ unmatched = <<>>
    /\ LET lookupError == ~empty(stor) /\ cerr = <<>> IN
        /\ cerr' = IF lookupError THEN Append(cerr, OffsetDetected) ELSE cerr
        /\ status' = mainStatus(lookupError, qp, defParser)
    /\ mpc' = "done"
    /\ UNCHANGED <<defParser, unmatched, cout, resolved>>
    /\ UNCHANGED <<qvars, jvars, pvars>>

\* no unmatched query is left: the queue is tested, main returns
MainReturn ==
    /\ mpc = "queries"
    /\ qpc = "eof"
    /\ unmatched = <<>>
    /\ LET lookupError == ~empty(stor) IN
        /\ cerr' = IF lookupError THEN Append(cerr, OffsetDetected) ELSE cerr
        /\ status' = mainStatus(lookupError, qp, defParser)
    /\ mpc' = "done"
    /\ UNCHANGED <<defParser, unmatched, cout, resolved>>
    /\ UNCHANGED <<qvars, jvars, pvars>>

NextMain ==
    \/ MainHashDefect \/ MainDefsDone
    \/ QueryTrue \/ QueryRetry \/ QueryFalse
    \/ MainLookupFound \/ MainLookupFailed
    \/ MainLinkBareCid \/ MainReturn

SpecMain == InitMain /\ [][NextMain]_vars

(***************************************************************************)
(* Properties of DefQueue                                                  *)
(***************************************************************************)
Keys == DefClasses \X {filterPath(p) : p \in Paths}

\* the key a defect is expected to be filed under
KeyOf(def) == <<def.defClass, filterPath(def.msgs[1].fileName)>>

\* the defects inserted so far whose key is k, in insertion order
InsertedUnder(k) == SelectSeq(insLog, LAMBDA d : KeyOf(d) = k)

\* the defects returned so far by the lookups that resolve to key k, in order
ReturnedFor(k) ==
    LET hits == SelectSeq(outLog, LAMBDA o : <<o[1], filterPath(o[2])>> = k)
    IN  [i \in 1..Len(hits) |-> hits[i][3]]

IsPrefix(a, b) == Len(a) <= Len(b) /\ SubSeq(b, 1, Len(a)) = a

\* the places of the store that hold a defect
Positions(s) ==
    UNION {UNION {{<<c, p, i>> : i \in 1..Len(s[c][p])} : p \in DOMAIN s[c]}
           : c \in DOMAIN s}

At(s, x) == s[x[1]][x[2]][x[3]]

\* the number of queued copies of defect def
Count(s, def) == Cardinality({x \in Positions(s) : At(s, x) = def})

\* the queued defects that a query (checker, fileName) is meant to match
Matching(s, checker, fileName) ==
    {x \in Positions(s) : KeyOf(At(s, x)) = <<checker, filterPath(fileName)>>}

Occurrences(seq, v) == Cardinality({i \in 1..Len(seq) : seq[i] = v})

\* C1: FIFO within a key: for every (defClass, normalized file) key, the
\* defects returned by the successful lookups resolving to that key are, in
\* order, a prefix of the defects inserted under that key.
C1_FifoWithinKey ==
    \A k \in Keys : IsPrefix(ReturnedFor(k), InsertedUnder(k))

\* C1 witness: A then B (different defects) were inserted under one key and
\* two lookups of that key have returned both.
C1_Witness ==
    \E k \in Keys :
        /\ Len(ReturnedFor(k)) = 2
        /\ ReturnedFor(k)[1] # ReturnedFor(k)[2]
        /\ call.op = "lookup"

\* C2: coarse key matching: a lookup returns found iff some queued defect
\* has the queried class and a first-event file that normalizes to the
\* normalized queried file; the defect returned has exactly that key, one
\* defect leaves the queue, and no defect of another key is removed.
C2_CoarseKeyMatching ==
    [][call'.op = "lookup" =>
        LET c == call'.checker
            f == call'.fileName
        IN  /\ call'.ret <=> (Matching(stor, c, f) # {})
            /\ call'.ret =>
                /\ KeyOf(dst') = <<c, filterPath(f)>>
                /\ Cardinality(Positions(stor')) = Cardinality(Positions(stor)) - 1
                /\ \A d \in Defect :
                    KeyOf(d) # <<c, filterPath(f)>> =>
                        Count(stor', d) = Count(stor, d)]_vars

\* C2 witness: a lookup found a defect whose file name differs from the
\* queried one (equal only after normalization) while defects of another
\* key stay queued.
C2_Witness ==
    /\ call.op = "lookup"
    /\ call.ret
    /\ dst.msgs[1].fileName # call.fileName
    /\ Positions(stor) # {}

\* C3: self-pruning: no outer key maps to an empty row and no inner key maps
\* to an empty defect list, after every hashDefect and every lookup.
C3_SelfPruning ==
    \A c \in DOMAIN stor :
        /\ DOMAIN stor[c] # {}
        /\ \A p \in DOMAIN stor[c] : stor[c][p] # <<>>

\* C3 witness: a successful lookup removed the last defect of its class (the
\* outer key is gone) while another class is still queued.
C3_Witness ==
    /\ call.op = "lookup"
    /\ call.ret
    /\ call.checker \notin DOMAIN stor
    /\ DOMAIN stor # {}

\* C4: a lookup that returns not-found changes neither the store nor the
\* caller's destination defect.
C4_NotFoundFrame ==
    [][(call'.op = "lookup" /\ ~call'.ret) => (stor' = stor /\ dst' = dst)]_vars

\* C4 witness: a lookup of a known class with no queue for the file failed
\* after an earlier lookup had filled the destination defect.
C4_Witness ==
    /\ call.op = "lookup"
    /\ ~call.ret
    /\ call.checker \in DOMAIN stor
    /\ dst # NoDefect

\* the last two calls are hashDefect(d) and lookup(d.defClass, d's file)
RoundTripStep ==
    /\ call.op = "hashDefect"
    /\ call'.op = "lookup"
    /\ call'.checker = call.def.defClass
    /\ call'.fileName = call.def.msgs[1].fileName

\* C5 as stated: in any reachable state, hashDefect(d) followed immediately
\* by lookup of d's class and file returns d and leaves no d in the queue.
C5_RoundTripAnyState ==
    [][RoundTripStep =>
        (call'.ret /\ dst' = call.def /\ Count(stor', call.def) = 0)]_vars

\* C5 amended: hashDefect(d) followed immediately by lookup of d's class and
\* file returns d and leaves no d in the queue, provided no defect was
\* queued under d's key before the insertion.
C5_RoundTripFreshKey ==
    [][(RoundTripStep
        /\ Cardinality(Matching(stor, call.def.defClass,
                                call.def.msgs[1].fileName)) = 1) =>
        (call'.ret /\ dst' = call.def /\ Count(stor', call.def) = 0)]_vars

\* C5 witness: d was inserted under a key with nothing queued, the next call
\* looked its key up and got d back, with other defects still queued.
C5_Witness ==
    /\ prev.op = "hashDefect"
    /\ call.op = "lookup"
    /\ call.checker = prev.def.defClass
    /\ call.fileName = prev.def.msgs[1].fileName
    /\ call.ret
    /\ dst = prev.def
    /\ Matching(stor, call.checker, call.fileName) = {}
    /\ Positions(stor) # {}

\* C6: empty() is true iff no defect remains queued, i.e. iff the number of
\* successful lookups equals the number of insertions, and every inserted
\* defect is returned by at most one lookup.
C6_EmptyIffAllClaimed ==
    /\ empty(stor) <=> (Len(outLog) = Len(insLog))
    /\ empty(stor) <=> (Positions(stor) = {})
    /\ \A d \in Defect :
        Occurrences([i \in 1..Len(outLog) |-> outLog[i][3]], d)
            <= Occurrences(insLog, d)

\* C6 witness: one defect was inserted, one query for its class and file was
\* resolved, and the queue is empty.
C6_Witness ==
    /\ Len(insLog) = 1
    /\ Len(outLog) = 1
    /\ call.op = "lookup"
    /\ call.ret
    /\ empty(stor)

(***************************************************************************)
(* Properties of the JSON reader                                           *)
(***************************************************************************)
FromSource == {"GccTreeDecoder", "ShellCheckTreeDecoder"}

\* the mandatory kind/level field of a record, "" when it is missing
KindOf(decoder, rec) ==
    IF decoder = "GccTreeDecoder" THEN valueOf(rec, "kind", "")
    ELSE valueOf(rec, "level", "")

\* the records of the document whose kind/level is not empty
WellFormed(decoder, list) == SelectSeq(list, LAMBDA r : KindOf(decoder, r) # "")

Finished == pc \in {"done_true", "done_false"}

\* C7: a GCC or ShellCheck record whose kind/level is empty or missing
\* yields no defect and does not halt the sequence: when the while (getNext)
\* loop of the consumer has ended, it has received one defect for every
\* well-formed record of the document.
C7_EmptyKindDoesNotHalt ==
    (Finished /\ priv.decoder \in FromSource) =>
        /\ Len(handled) = Len(WellFormed(priv.decoder, priv.defList))
        /\ \A i \in 1..Len(handled) : handled[i].events[1].event # ""

\* a defect with at least one event whose key event has a kind
HasKeyEvent(df) == df.events # <<>> /\ df.events[1].event # ""

Yielded == Len(handled) + (IF pc = "handleDef" THEN 1 ELSE 0)

\* C9: per-record recovery: a data error caught by getNext sets the error
\* flag, skips exactly the failing record and keeps the same getNext call
\* running; a sequence in which errors were caught ends only at the end of
\* the records; the defect counter always equals the number of defects
\* yielded so far.
C9_PerRecordRecovery ==
    /\ [](priv.defNumber = Yielded)
    /\ []((thrown > 0 /\ pc \in {"return", "done_true", "done_false"}) =>
            priv.defIter = Len(priv.defList) + 1)
    /\ [][thrown' = thrown + 1 =>
            /\ hasError(input')
            /\ pc' = "getNext"
            /\ callNo' = callNo
            /\ priv'.defIter = priv.defIter + 1
            /\ priv'.defNumber = priv.defNumber
            /\ handled' = handled]_vars

\* C9 witness: the first record raised a data error, a later record was
\* yielded by the same call, and the sequence ended at the end of the list.
C9_Witness ==
    /\ Finished
    /\ thrown >= 1
    /\ Len(handled) >= 1
    /\ input.doc.items[1] = RecBad
    /\ callNo = Len(handled) + 1

\* C10: silent mode: every record-level failure marks the error flag of the
\* input, silent or not, and the diagnostic is printed exactly when silent
\* mode is off.
C10_SilentStillMarksError ==
    /\ thrown > 0 => hasError(input)
    /\ Len(input.stderr) = (IF input.silent THEN 0 ELSE thrown)

\* C10 witness: a record failed in silent mode: nothing was printed and the
\* error flag is set.
C10_Witness ==
    /\ input.silent
    /\ thrown > 0
    /\ input.stderr = <<>>
    /\ hasError(input)

\* the markers in the order of their priority and the decoder of each
Priority == <<"defects", "issues", "runs", "comments">>
DecoderOf ==
    [defects |-> "SimpleTreeDecoder", issues |-> "CovTreeDecoder",
     runs |-> "SarifTreeDecoder", comments |-> "ShellCheckTreeDecoder"]

\* the root has a child at all
NonEmptyRoot(root) == root.markers # {} \/ root.items # <<>>

\* the root carries one of the five markers
HasMarker(root) == root.markers # {} \/ "kind" \in DOMAIN root.first

Constructed == pc # "ctor"

\* C11: sniffing follows the priority defects > issues > runs > comments >
\* (first element has a field kind): for every non-empty root with a marker
\* the decoder selected is the one of the earliest marker in this order.
C11_SniffPriority ==
    (Constructed /\ input.doc.syntaxOK /\ NonEmptyRoot(input.doc)
     /\ HasMarker(input.doc)) =>
        LET present == {i \in 1..Len(Priority) :
                            Priority[i] \in input.doc.markers}
        IN  IF present = {}
            THEN priv.decoder = "GccTreeDecoder"
            ELSE \E i \in present :
                    /\ \A j \in present : i <= j
                    /\ priv.decoder = DecoderOf[Priority[i]]

\* C11 witness: the root carries "issues", "runs" and "comments" and its
\* first child has a field kind; the Coverity decoder was selected.
C11_Witness ==
    /\ Constructed
    /\ input.doc.markers = {"issues", "runs", "comments"}
    /\ "kind" \in DOMAIN input.doc.first
    /\ priv.decoder = "CovTreeDecoder"

\* C12: a non-empty document without any of the five markers is a fatal
\* format error: no decoder is selected, hasError() is true afterwards, and
\* driving getNext yields no defect and ends the sequence.
C12_UnknownFormatYieldsNothing ==
    (Constructed /\ input.doc.syntaxOK /\ NonEmptyRoot(input.doc)
     /\ ~HasMarker(input.doc)) =>
        /\ priv.decoder = "null"
        /\ hasError(input)
        /\ Yielded = 0
        /\ pc # "crashed"

\* C13: an empty top-level collection is valid: the constructor sets no
\* error, and driving getNext to exhaustion yields no defect and leaves
\* hasError() false without a call through the decoder never selected.
C13_EmptyDocumentIsValid ==
    (Constructed /\ input.doc.syntaxOK /\ ~NonEmptyRoot(input.doc)) =>
        /\ ~hasError(input)
        /\ Yielded = 0
        /\ pc # "crashed"

\* the positions (from 1) of the records read so far that raised an error
FailedPositions ==
    SelectSeq([i \in 1..(priv.defIter - 1) |-> i],
              LAMBDA i : readNode([priv EXCEPT !.defIter = i], curDef).res
                            = "throw")

\* C19: the number printed in "failed to read defect #N" identifies the
\* position of the failing record (counted from 0 or from 1): two failing
\* records of one document are reported with two different numbers.
C19_DiagnosticNamesPosition ==
    (~input.silent /\ priv.decoder # "null") =>
        /\ Len(input.stderr) = Len(FailedPositions)
        /\ \A k \in 1..Len(input.stderr) :
            input.stderr[k] \in {FailedPositions[k] - 1, FailedPositions[k]}
        /\ \A j, k \in 1..Len(input.stderr) :
            j # k => input.stderr[j] # input.stderr[k]

(***************************************************************************)
(* Properties of the query parser                                          *)
(***************************************************************************)
\* the query that a line of the stream stands for, by the rule of the query
\* format: at least three fields, the first an integer
Malformed == [cid |-> -1, defClass |-> "", fileName |-> ""]
QueryOf(line) ==
    CASE line = LineOk1 -> [cid |-> 7, defClass |-> "X", fileName |-> "a.c"]
      [] line = LineOk2 ->
            [cid |-> 8, defClass |-> "Y", fileName |-> "/build/a.c"]
      [] line = LineEmptyFields -> [cid |-> 9, defClass |-> "", fileName |-> ""]
      [] OTHER -> Malformed

\* the queries of the well-formed lines among the first n lines, in order
RECURSIVE QueriesOf(_, _)
QueriesOf(lines, n) ==
    IF n = 0 THEN <<>>
    ELSE LET q == QueryOf(lines[n]) IN
         QueriesOf(lines, n - 1) \o (IF q = Malformed THEN <<>> ELSE <<q>>)

\* the positions of the malformed lines among the first n lines
BadLines(lines, n) == {i \in 1..n : QueryOf(lines[i]) = Malformed}

\* C14: query-line recovery: the rows yielded so far are exactly the
\* well-formed lines read so far, each once and in stream order, with
\* cid/defClass/fileName from fields 0/1/2; every malformed line read has
\* set the error flag and was reported with its line number; the stream
\* ends only when all lines were read.
C14_QueryLineRecovery ==
    /\ rows = QueriesOf(cin.lines, cin.next - 1)
    /\ BadLines(cin.lines, cin.next - 1) # {} => DefQueryParser_hasError(qp)
    /\ \A i \in BadLines(cin.lines, cin.next - 1) :
            \E k \in 1..Len(qerr) : qerr[k] = i
    /\ qpc = "eof" => cin.next = Len(cin.lines) + 1

\* C14 witness: a stream with a short line, then a line with extra fields,
\* then a line with a bad identifier, then a well-formed line was read to
\* its end and yielded the two well-formed lines.
C14_Witness ==
    /\ qpc = "eof"
    /\ Len(cin.lines) >= 3
    /\ cin.lines[1] = LineTwoFields
    /\ cin.lines[2] = LineOk2
    /\ cin.lines[3] = LineNotInt
    /\ Len(rows) >= 1
    /\ rows[1] = [cid |-> 8, defClass |-> "Y", fileName |-> "/build/a.c"]

\* C15: after the stream was driven to its end, hasError() is true iff at
\* least one line failed to parse; a stream of well-formed lines only (an
\* empty stream too) ends with the flag false.
C15_ErrorFlagIffBadLine ==
    qpc = "eof" =>
        (DefQueryParser_hasError(qp)
            <=> BadLines(cin.lines, Len(cin.lines)) # {})

(***************************************************************************)
(* Properties of main                                                      *)
(***************************************************************************)
\* the cids of the 'defect lookup failed' warnings printed so far, in order
RECURSIVE WarnedCids(_)
WarnedCids(e) ==
    IF e = <<>> THEN <<>>
    ELSE (IF Head(e).msg = "defect lookup failed" THEN <<Head(e).cid>>
          ELSE <<>>) \o WarnedCids(Tail(e))

\* the cids of the queries looked up so far for which lookup returned ret
RECURSIVE ResolvedCids(_, _)
ResolvedCids(r, ret) ==
    IF r = <<>> THEN <<>>
    ELSE (IF Head(r).ret = ret THEN <<Head(r).row.cid>> ELSE <<>>)
         \o ResolvedCids(Tail(r), ret)

\* 'offset detected' was printed
OffsetSignal == \E i \in 1..Len(cerr) : cerr[i] = OffsetDetected

\* defects were inserted that no lookup has returned
Unclaimed == Len(outLog) < Len(insLog)

\* the queries yielded by the query parser and already looked up
LookedUp == [i \in 1..Len(resolved) |-> resolved[i].row]

\* C16: the 'defect lookup failed' signal is raised for exactly the
\* well-formed queries whose lookup returned not-found; 'offset detected' is
\* raised exactly when the queue is non-empty after the query stream is
\* exhausted; neither signal depends on the other.
C16_SignalsIndependent ==
    /\ WarnedCids(cerr) = ResolvedCids(resolved, FALSE)
    /\ IsPrefix(LookedUp, rows) /\ Len(rows) - Len(resolved) \in {0, 1}
    /\ qpc = "eof" => LookedUp = QueriesOf(cin.lines, Len(cin.lines))
    /\ mpc # "done" => ~OffsetSignal
    /\ mpc = "done" => (OffsetSignal <=> Unclaimed)

\* C16 witness: a finished run with one query that matched no defect and one
\* defect never queried raised both signals.
C16_Witness ==
    /\ mpc = "done"
    /\ Len(resolved) = 1 /\ ~resolved[1].ret
    /\ Len(insLog) = 1 /\ outLog = <<>>
    /\ WarnedCids(cerr) # <<>>
    /\ OffsetSignal

\* C17: the status that main returns is non-zero whenever the document had a
\* fatal error, a query was unmatched, or a defect was left unclaimed.
C17_RunStatus ==
    mpc = "done" =>
        ((defParser.doc.fatal
            \/ ResolvedCids(resolved, FALSE) # <<>>
            \/ Unclaimed) => status # 0)

\* C17 witness: a run whose only fault is an unmatched query (no fatal error,
\* no skipped record, no malformed line, every defect claimed) has returned a
\* non-zero status.
C17_Witness ==
    /\ mpc = "done"
    /\ ~defParser.doc.fatal /\ ~Parser_hasError(defParser)
    /\ qerr = <<>>
    /\ ~Unclaimed
    /\ ResolvedCids(resolved, FALSE) # <<>>
    /\ ResolvedCids(resolved, TRUE) # <<>>
    /\ status # 0

\* a line was read from the query stream, or its end was met
QueryRead == cin.next > 1 \/ cin.fail

\* C18: if the defect list fails with a fatal error, no query is read from
\* the query stream and no lookup is performed in that run.
C18_FatalAbortsRun ==
    defParser.doc.fatal => (~QueryRead /\ resolved = <<>>)

\* C20: once a query has been read or a lookup has happened, no defect is
\* inserted into the queue any more; while defects are inserted no query has
\* been read and no lookup has happened.
C20_InsertionPrecedesDrainage ==
    [][ /\ (QueryRead \/ resolved # <<>>) => insLog' = insLog
        /\ insLog' # insLog => (~QueryRead' /\ resolved' = <<>>) ]_vars

\* C20 witness: a run inserted two defects and afterwards looked up a query
\* that claimed one of them.
C20_Witness ==
    /\ Len(insLog) = 2
    /\ Len(resolved) >= 1 /\ resolved[1].ret
    /\ Len(outLog) = 1

(***************************************************************************)
(* Properties of the decode sequence                                       *)
(***************************************************************************)
\* the records of the document
NRecords == Len(input.doc.items)

\* the records that the passes of getNext have visited so far
Visited == priv.defIter - 1

\* C21: the decode sequence is finite and forward-only: for a document with
\* N records the cursor only moves forward, by one record per pass of
\* getNext, and never beyond the end; every defect yielded and every retry
\* of the recovery loop has consumed a record of its own, so at most N
\* defects are yielded and at most N passes go on; the calls end with
\* end-of-sequence and not with an abort.
C21_FiniteForwardOnly ==
    /\ [](Visited <= NRecords)
    /\ [](Yielded + thrown <= Visited)
    /\ [](pc # "crashed")
    /\ [][priv'.defIter \in {priv.defIter, priv.defIter + 1}]_vars
    /\ [][(thrown' = thrown + 1 \/ pc' = "handleDef") =>
            priv'.defIter = priv.defIter + 1]_vars

(***************************************************************************)
(* Properties of the outcomes of the queries                               *)
(***************************************************************************)
\* the outputs of one kind written to std::cout so far, in order
Outputs(kind) == SelectSeq(cout, LAMBDA o : o.kind = kind)

CidsOf(outs) == [i \in 1..Len(outs) |-> outs[i].cid]

\* the defects queued in s
QueueSize(s) == Cardinality(Positions(s))

\* the well-formed queries of the whole query stream
WellFormedQueries == QueriesOf(cin.lines, Len(cin.lines))

\* C22: every well-formed query yielded by the query parser has exactly one
\* outcome: a correlated (defect, cid) output when lookup succeeds, which
\* takes exactly one defect from the queue, or one unmatched-query record
\* when lookup fails, which takes none; unmatched records are emitted only
\* after the query stream is drained, in query-stream order; at the end the
\* correlated outputs plus the unmatched records are as many as the
\* well-formed queries.
C22_OneOutcomePerQuery ==
    /\ [](/\ CidsOf(Outputs("linkify")) = ResolvedCids(resolved, TRUE)
          /\ \A i \in 1..Len(Outputs("linkify")) :
                Outputs("linkify")[i].def = outLog[i][3]
          /\ CidsOf(Outputs("linkBareCid")) \o CidsOf(unmatched)
                = ResolvedCids(resolved, FALSE)
          /\ Outputs("linkBareCid") # <<>> => qpc = "eof"
          /\ mpc = "done" =>
                /\ unmatched = <<>>
                /\ LookedUp = WellFormedQueries
                /\ Len(Outputs("linkify")) + Len(Outputs("linkBareCid"))
                     = Len(WellFormedQueries))
    /\ [][Len(resolved') = Len(resolved) + 1 =>
            IF resolved'[Len(resolved')].ret
            THEN /\ QueueSize(stor') = QueueSize(stor) - 1
                 /\ Len(Outputs("linkify")') = Len(Outputs("linkify")) + 1
                 /\ unmatched' = unmatched
            ELSE /\ stor' = stor
                 /\ Outputs("linkify")' = Outputs("linkify")
                 /\ unmatched' = Append(unmatched, qrow)]_vars

\* C22 witness: a finished run correlated one query with a defect and
\* reported another query, read before it, as unmatched.
C22_Witness ==
    /\ mpc = "done"
    /\ Len(resolved) = 2 /\ ~resolved[1].ret /\ resolved[2].ret
    /\ Len(Outputs("linkify")) = 1
    /\ Len(Outputs("linkBareCid")) = 1
    /\ cout[1].kind = "linkify"

====
